---------------------------- MODULE Spec2Model ----------------------------
(***************************************************************************)
(* The legacy Windows console renderer of rich:                            *)
(*   rich/_windows_renderer.py  legacy_windows_render                      *)
(*   rich/_win32_console.py     LegacyWindowsTerm and the kernel32 wrappers *)
(*                                                                         *)
(* The console host (kernel32 and the console attached to the file) is     *)
(* the record `host`: its active attribute, cursor, character cells,       *)
(* window origin, and the trace of the requests that reached it.           *)
(***************************************************************************)
EXTENDS Integers, Sequences, FiniteSets, TLC

(***************************************************************************)
(* Bounds of the model.                                                    *)
(***************************************************************************)
\* dwSize.X and dwSize.Y of the console screen buffer
Width == 3
Height == 3
\* text writes plus control codes consumed by one render
MaxInput == 2
\* srWindow.Top of a console whose window is scrolled down in its buffer
ViewTop == 2
\* largest number of a downgraded colour
MaxNumber == 8
\* the attribute or cursor request a faulty console fails is among its
\* first MaxFault
MaxFault == 2

Rows == 0 .. (Height - 1)
Cols == 0 .. (Width - 1)

(***************************************************************************)
(* Values of the formatting layer (rich.segment, rich.style, rich.color).  *)
(***************************************************************************)
CR == "\r"
Hi == <<"H", "i">>
Bang == <<"!">>
Empty == <<>>

\* style.color / style.bgcolor: None, or a Color whose downgrade to the
\* WINDOWS colour system has the number `number`, or has number None.
NoColor == [kind |-> "None"]
DefaultColor == [kind |-> "Default"]
Color(n) == [kind |-> "Color", number |-> n]

\* segment.style: None, or a Style with optional colours and other attributes
NoStyle == [kind |-> "None"]
Style(color, bgcolor, bold) ==
    [kind |-> "Style", color |-> color, bgcolor |-> bgcolor, bold |-> bold]

\* the styled branch taken only for a style that carries a colour
StyleTruthy_has_colour(style) ==
    /\ style.kind = "Style"
    /\ (style.color.kind # "None" \/ style.bgcolor.kind # "None")

\* bool(style): a Style is false when it sets no attribute and no colour
StyleTruthy(style) ==
    /\ style.kind = "Style"
    /\ (style.color.kind # "None" \/ style.bgcolor.kind # "None" \/ style.bold)

Segment(text, style, control) ==
    [text |-> text, style |-> style, control |-> control]

\* ControlCode tuples; BELL stands for every ControlType the renderer does
\* not dispatch on
CursorMoveToCode(x, y) == <<"CURSOR_MOVE_TO", x, y>>
CarriageReturnCode == <<"CARRIAGE_RETURN">>
HomeCode == <<"HOME">>
CursorUpCode == <<"CURSOR_UP">>
EraseInLineCode(mode) == <<"ERASE_IN_LINE", mode>>
BellCode == <<"BELL">>

(***************************************************************************)
(* class WindowsCoordinates(NamedTuple): fields in the order (row, col).   *)
(***************************************************************************)
WindowsCoordinates(row, col) == [row |-> row, col |-> col]

\* COORD(value.col, value.row): the X and Y the host receives
from_param(value) == [X |-> value.col, Y |-> value.row]

(***************************************************************************)
(* The console host behind the kernel32 entry points.                      *)
(***************************************************************************)
Log(h, call) == [h EXCEPT !.calls = Append(@, call)]

BlankRow(attr) == [c \in Cols |-> [ch |-> " ", attr |-> attr]]

\* one character of file.write arriving at the console
PutChar(h, ch) ==
    IF ch = CR
    THEN [h EXCEPT !.col = 0]
    ELSE LET w == [h EXCEPT !.cells[h.row][h.col] = [ch |-> ch, attr |-> h.attr]]
         IN  IF h.col + 1 < Width
             THEN [w EXCEPT !.col = h.col + 1]
             ELSE IF h.row + 1 < Height
             THEN [w EXCEPT !.col = 0, !.row = h.row + 1]
             ELSE [w EXCEPT !.col = 0,
                            !.cells = [r \in Rows |->
                                          IF r + 1 < Height
                                          THEN w.cells[r + 1]
                                          ELSE BlankRow(h.attr)]]

RECURSIVE PutChars(_, _)
PutChars(h, text) ==
    IF text = <<>> THEN h
    ELSE PutChars(PutChar(h, Head(text)), Tail(text))

\* self.write = file.write
FileWrite(h, text) == Log(PutChars(h, text), <<"write", text>>)

\* the attribute and cursor requests the host has received so far
IsSetRequest(call) == call[1] \in {"setAttribute", "setCursorPosition"}
SetRequests(h) == Len(SelectSeq(h.calls, IsSetRequest))

\* the request now arriving is the one the host fails: it returns 0 and
\* changes nothing (h.fault = 0: the host fails no request)
Fails(h) == SetRequests(h) + 1 = h.fault

\* kernel32.SetConsoleTextAttribute
_SetConsoleTextAttribute(h, attributes) ==
    LET logged == Log(h, <<"setAttribute", attributes>>)
    IN  IF Fails(h)
        THEN logged
        ELSE [logged EXCEPT !.attr = attributes]

\* kernel32.SetConsoleCursorPosition: the host rejects a position outside
\* the screen buffer and leaves the cursor where it is
_SetConsoleCursorPosition(h, coord) ==
    LET logged == Log(h, <<"setCursorPosition", coord.Y, coord.X>>)
    IN  IF coord.X \in Cols /\ coord.Y \in Rows /\ ~Fails(h)
        THEN [logged EXCEPT !.row = coord.Y, !.col = coord.X]
        ELSE logged

\* kernel32.FillConsoleOutputCharacterW: writes the character `length`
\* times from the start cell on, continuing on the following rows and
\* stopping at the end of the buffer; nothing when the start is outside
_FillConsoleOutputCharacterW(h, char, length, coord) ==
    LET logged == Log(h, <<"fill", char, length, coord.Y, coord.X>>)
        first == coord.Y * Width + coord.X
    IN  IF coord.X \in Cols /\ coord.Y \in Rows
        THEN [logged EXCEPT !.cells =
                 [r \in Rows |-> [c \in Cols |->
                     IF r * Width + c >= first /\ r * Width + c < first + length
                     THEN [ch |-> char, attr |-> h.cells[r][c].attr]
                     ELSE h.cells[r][c]]]]
        ELSE logged

\* kernel32.GetConsoleScreenBufferInfo
GetConsoleScreenBufferInfo(h) == Log(h, <<"getInfo">>)

(***************************************************************************)
(* The wrappers of rich/_win32_console.py.                                 *)
(***************************************************************************)
FillConsoleOutputCharacter(h, char, length, start) ==
    LET \* x, y = start
        x == start.row
        y == start.col
    IN  _FillConsoleOutputCharacterW(h, char, length,
            from_param(WindowsCoordinates(y, x)))

\* the wrapper asking again when the host has not taken the attribute
SetConsoleTextAttribute_retries(h, attributes) ==
    LET h1 == _SetConsoleTextAttribute(h, attributes)
    IN  IF h1.attr # attributes
        THEN _SetConsoleTextAttribute(h1, attributes)
        ELSE h1

\* the bool the kernel call returns is passed on, and no caller reads it
SetConsoleTextAttribute(h, attributes) ==
    _SetConsoleTextAttribute(h, attributes)

\* the wrapper without its guard against negative coordinates
SetConsoleCursorPosition_unguarded(h, coords) ==
    _SetConsoleCursorPosition(h, from_param(coords))

SetConsoleCursorPosition(h, coords) ==
    IF coords.col < 0 \/ coords.row < 0
    THEN h
    ELSE _SetConsoleCursorPosition(h, from_param(coords))

(***************************************************************************)
(* class LegacyWindowsTerm                                                 *)
(***************************************************************************)
\* the table without the swaps between the ANSI and the console order
ANSI_TO_WINDOWS_unswapped == [n \in 0 .. 7 |-> n]

ANSI_TO_WINDOWS ==
    (0 :> 0) @@ (1 :> 4) @@ (2 :> 2) @@ (3 :> 6) @@
    (4 :> 1) @@ (5 :> 5) @@ (6 :> 3) @@ (7 :> 7)

NoTerm == [kind |-> "None"]

\* LegacyWindowsTerm.__init__
LegacyWindowsTerm(h) ==
    LET default_text == h.attr
        default_fore == default_text % 8
        default_back == (default_text \div 16) % 8
    IN  [kind |-> "LegacyWindowsTerm",
         default_text |-> default_text,
         default_fore |-> default_fore,
         default_back |-> default_back,
         default_attrs |-> default_fore + default_back * 16]

cursor_position(h) == WindowsCoordinates(h.row, h.col)

screen_size(h) == WindowsCoordinates(Height, Width)

write_text(h, text) == FileWrite(h, text)

\* the lookup falling back to black instead of the role's default
ResolveNumber_black_fallback(color, default) ==
    IF color.kind = "Color" /\ color.number \in DOMAIN ANSI_TO_WINDOWS
    THEN ANSI_TO_WINDOWS[color.number]
    ELSE 0

\* self.ANSI_TO_WINDOWS.get(color.downgrade(ColorSystem.WINDOWS).number, default)
ResolveNumber(color, default) ==
    IF color.kind = "Color" /\ color.number \in DOMAIN ANSI_TO_WINDOWS
    THEN ANSI_TO_WINDOWS[color.number]
    ELSE default

ResolveFore(t, style) ==
    IF style.color.kind # "None"
    THEN ResolveNumber(style.color, t.default_fore)
    ELSE t.default_fore

ResolveBack(t, style) ==
    IF style.bgcolor.kind # "None"
    THEN ResolveNumber(style.bgcolor, t.default_back)
    ELSE t.default_back

\* the background shifted by three bits instead of a nibble
PackedAttribute_shift3(fore, back) == (fore + back * 8) % 65536

\* ctypes.c_ushort(fore + back * 16)
PackedAttribute(fore, back) == (fore + back * 16) % 65536

\* write_styled restoring the two colour nibbles instead of the full word
write_styled_restores_nibbles(h, t, text, style) ==
    LET fore == ResolveFore(t, style)
        back == ResolveBack(t, style)
        h1 == SetConsoleTextAttribute(h, PackedAttribute(fore, back))
        h2 == write_text(h1, text)
    IN  SetConsoleTextAttribute(h2, t.default_attrs)

\* write_styled writing the text before the attribute is set
write_styled_writes_first(h, t, text, style) ==
    LET fore == ResolveFore(t, style)
        back == ResolveBack(t, style)
        h1 == write_text(h, text)
        h2 == SetConsoleTextAttribute(h1, PackedAttribute(fore, back))
    IN  SetConsoleTextAttribute(h2, t.default_text)

write_styled(h, t, text, style) ==
    LET fore == ResolveFore(t, style)
        back == ResolveBack(t, style)
        h1 == SetConsoleTextAttribute(h, PackedAttribute(fore, back))
        h2 == write_text(h1, text)
    IN  SetConsoleTextAttribute(h2, t.default_text)

\* negative coordinates clamped to the first row and column
move_cursor_to_clamped(h, new_position) ==
    SetConsoleCursorPosition(h,
        WindowsCoordinates(IF new_position.row < 0 THEN 0 ELSE new_position.row,
                           IF new_position.col < 0 THEN 0 ELSE new_position.col))

move_cursor_to(h, new_position) == SetConsoleCursorPosition(h, new_position)

\* the line erased by writing spaces as text
erase_line_writes_spaces(h) ==
    LET h1 == GetConsoleScreenBufferInfo(h)
        size == screen_size(h1)
    IN  write_text(h1, [i \in 1 .. size.col |-> " "])

erase_line(h) ==
    LET h1 == GetConsoleScreenBufferInfo(h)
        size == screen_size(h1)
        h2 == GetConsoleScreenBufferInfo(h1)
        position == cursor_position(h2)
        cells_to_erase == size.col
        start_coordinates == WindowsCoordinates(position.row, 0)
    IN  FillConsoleOutputCharacter(h2, " ", cells_to_erase, start_coordinates)

erase_end_of_line(h) ==
    LET h1 == GetConsoleScreenBufferInfo(h)
        position == cursor_position(h1)
        h2 == GetConsoleScreenBufferInfo(h1)
        cells_to_erase == screen_size(h2).col - position.col
    IN  FillConsoleOutputCharacter(h2, " ", cells_to_erase, position)

move_cursor_up(h) ==
    LET h1 == GetConsoleScreenBufferInfo(h)
        position == cursor_position(h1)
    IN  SetConsoleCursorPosition(h1,
            WindowsCoordinates(position.row - 1, position.col))

(***************************************************************************)
(* Inputs of the render: the segments and control codes the iterable may   *)
(* yield, and the consoles the renderer may be constructed on.             *)
(***************************************************************************)
\* text of a styled segment, and of a segment written without style
StyledTexts == {Hi, Bang}
PlainTexts == {Hi, Bang, Empty}

Red == Color(1)
Green == Color(2)

NullStyle == Style(NoColor, NoColor, FALSE)
BoldStyle == Style(NoColor, NoColor, TRUE)

Styles ==
    {NoStyle, NullStyle, BoldStyle,
     Style(Red, Green, FALSE), Style(Red, NoColor, FALSE)}

\* every colour a style may carry: absent, without a number, and with each
\* number up to MaxNumber (the table ANSI_TO_WINDOWS ends at 7)
AllColors == {NoColor, DefaultColor} \cup {Color(n) : n \in 0 .. MaxNumber}

AllStyles ==
    {Style(f, b, bold) : f \in AllColors, b \in AllColors, bold \in BOOLEAN}

\* text of a segment that carries control codes
ControlTexts == {Empty, Hi}

\* cursor-move-to(x, y): into the buffer, left of its first column, and
\* above its first row
MoveToCodes == {CursorMoveToCode(x, y) : x \in {0, 2}, y \in {0, 1, 2}}

\* wAttributes of the console when the renderer is constructed: white on
\* black, and a word with the intensity bits of both nibbles set
DefaultWords == {7, 158}

WindowTops == {0, ViewTop}

InitialHost(attr, top) ==
    [attr |-> attr, row |-> 0, col |-> 0,
     cells |-> [r \in Rows |-> [c \in Cols |-> [ch |-> "#", attr |-> attr]]],
     top |-> top, left |-> 0,
     calls |-> <<>>,
     fault |-> 0]

(***************************************************************************)
(* legacy_windows_render as a state machine.                               *)
(*   host    the console                                                   *)
(*   term    the LegacyWindowsTerm of this render                          *)
(*   pc      "new", "loop" (between segments), "control" (inside the loop  *)
(*           over a segment's control codes), "done", "raised"             *)
(*   buffer  the segments consumed so far; the control codes of the last   *)
(*           one are those consumed so far                                 *)
(*   host0   the console as it was when the last segment was taken         *)
(*   used    text writes plus control codes consumed so far                *)
(*   peer    a second render of one styled segment on the same console:    *)
(*           its position ("off" when there is none), its                  *)
(*           LegacyWindowsTerm, and the attribute the console had before   *)
(*           either render                                                 *)
(***************************************************************************)
VARIABLES host, term, pc, buffer, host0, used, peer

vars == <<host, term, pc, buffer, host0, used, peer>>

Peer(position, t, original) ==
    [pc |-> position, term |-> t, original |-> original]

Init ==
    /\ \E attr \in DefaultWords, top \in WindowTops :
           host = InitialHost(attr, top)
    /\ term = NoTerm
    /\ pc = "new"
    /\ buffer = <<>>
    /\ host0 = host
    /\ used = 0
    /\ peer = Peer("off", NoTerm, host.attr)

segment == buffer[Len(buffer)]

AppendControl(code) ==
    [buffer EXCEPT ![Len(buffer)].control = Append(@, code)]

\* term = LegacyWindowsTerm(file)
Construct ==
    /\ pc = "new"
    /\ host' = GetConsoleScreenBufferInfo(host)
    /\ term' = LegacyWindowsTerm(host)
    /\ pc' = "loop"
    /\ host0' = host'
    /\ UNCHANGED <<buffer, used, peer>>

\* not control, style: term.write_styled(text, segment.style)
RenderStyled ==
    /\ pc = "loop"
    /\ used < MaxInput
    /\ \E text \in StyledTexts, style \in Styles :
           /\ StyleTruthy(style)
           /\ host' = write_styled(host, term, text, style)
           /\ buffer' = Append(buffer, Segment(text, style, <<>>))
    /\ host0' = host
    /\ used' = used + 1
    /\ UNCHANGED <<term, pc, peer>>

\* the same branch for a buffer of one segment, over every colour pair
RenderAnyStyle ==
    /\ pc = "loop"
    /\ buffer = <<>>
    /\ \E style \in AllStyles :
           /\ StyleTruthy(style)
           /\ host' = write_styled(host, term, Hi, style)
           /\ buffer' = Append(buffer, Segment(Hi, style, <<>>))
    /\ host0' = host
    /\ used' = used + 1
    /\ UNCHANGED <<term, pc, peer>>

\* not control, not style: term.write_text(text)
RenderPlain ==
    /\ pc = "loop"
    /\ used < MaxInput
    /\ \E text \in PlainTexts, style \in Styles :
           /\ ~StyleTruthy(style)
           /\ host' = write_text(host, text)
           /\ buffer' = Append(buffer, Segment(text, style, <<>>))
    /\ host0' = host
    /\ used' = used + 1
    /\ UNCHANGED <<term, pc, peer>>

\* the text of a segment written before its control codes are executed
BeginControl_writes_text ==
    /\ pc = "loop"
    /\ used < MaxInput
    /\ \E text \in ControlTexts :
           /\ host' = write_text(host, text)
           /\ buffer' = Append(buffer, Segment(text, NoStyle, <<>>))
    /\ pc' = "control"
    /\ host0' = host
    /\ UNCHANGED <<term, used, peer>>

\* control: the loop over the segment's control codes is entered
BeginControl ==
    /\ pc = "loop"
    /\ used < MaxInput
    /\ \E text \in ControlTexts :
           buffer' = Append(buffer, Segment(text, NoStyle, <<>>))
    /\ pc' = "control"
    /\ host0' = host
    /\ UNCHANGED <<host, term, used, peer>>

\* the dispatch with a final branch that raises on a control type it does
\* not know
control_code_rejects_unknown(h, code) ==
    LET control_type == code[1]
        ok(h1) == [host |-> h1, raised |-> FALSE]
    IN  IF control_type = "CURSOR_MOVE_TO"
        THEN LET x == code[2]
                 y == code[3]
             IN  ok(move_cursor_to(h, WindowsCoordinates(y - 1, x - 1)))
        ELSE IF control_type = "CARRIAGE_RETURN"
        THEN ok(write_text(h, <<CR>>))
        ELSE IF control_type = "HOME"
        THEN ok(move_cursor_to(h, WindowsCoordinates(0, 0)))
        ELSE IF control_type = "CURSOR_UP"
        THEN ok(move_cursor_up(h))
        ELSE IF control_type = "ERASE_IN_LINE"
        THEN LET mode == code[2]
             IN  IF mode = 0 THEN ok(erase_end_of_line(h))
                 ELSE IF mode = 1
                 \* term.erase_start_of_Line() is no attribute of
                 \* LegacyWindowsTerm: AttributeError
                 THEN [host |-> h, raised |-> TRUE]
                 ELSE IF mode = 2 THEN ok(erase_line(h))
                 ELSE ok(h)
        ELSE [host |-> h, raised |-> TRUE]

\* the dispatch with every erase mode other than 0 and 1 erasing the line
control_code_else_erases_line(h, code) ==
    LET control_type == code[1]
        ok(h1) == [host |-> h1, raised |-> FALSE]
    IN  IF control_type = "CURSOR_MOVE_TO"
        THEN LET x == code[2]
                 y == code[3]
             IN  ok(move_cursor_to(h, WindowsCoordinates(y - 1, x - 1)))
        ELSE IF control_type = "CARRIAGE_RETURN"
        THEN ok(write_text(h, <<CR>>))
        ELSE IF control_type = "HOME"
        THEN ok(move_cursor_to(h, WindowsCoordinates(0, 0)))
        ELSE IF control_type = "CURSOR_UP"
        THEN ok(move_cursor_up(h))
        ELSE IF control_type = "ERASE_IN_LINE"
        THEN LET mode == code[2]
             IN  IF mode = 0 THEN ok(erase_end_of_line(h))
                 ELSE IF mode = 1
                 \* term.erase_start_of_Line() is no attribute of
                 \* LegacyWindowsTerm: AttributeError
                 THEN [host |-> h, raised |-> TRUE]
                 ELSE ok(erase_line(h))
        ELSE ok(h)

\* the dispatch with HOME going to the first cell of the window
control_code_home_in_window(h, code) ==
    LET control_type == code[1]
        ok(h1) == [host |-> h1, raised |-> FALSE]
    IN  IF control_type = "CURSOR_MOVE_TO"
        THEN LET x == code[2]
                 y == code[3]
             IN  ok(move_cursor_to(h, WindowsCoordinates(y - 1, x - 1)))
        ELSE IF control_type = "CARRIAGE_RETURN"
        THEN ok(write_text(h, <<CR>>))
        ELSE IF control_type = "HOME"
        THEN ok(move_cursor_to(h, WindowsCoordinates(h.top, h.left)))
        ELSE IF control_type = "CURSOR_UP"
        THEN ok(move_cursor_up(h))
        ELSE IF control_type = "ERASE_IN_LINE"
        THEN LET mode == code[2]
             IN  IF mode = 0 THEN ok(erase_end_of_line(h))
                 ELSE IF mode = 1
                 \* term.erase_start_of_Line() is no attribute of
                 \* LegacyWindowsTerm: AttributeError
                 THEN [host |-> h, raised |-> TRUE]
                 ELSE IF mode = 2 THEN ok(erase_line(h))
                 ELSE ok(h)
        ELSE ok(h)

\* the body of `for control_code in control_codes`: the console afterwards,
\* and whether the body raised
control_code(h, code) ==
    LET control_type == code[1]
        ok(h1) == [host |-> h1, raised |-> FALSE]
    IN  IF control_type = "CURSOR_MOVE_TO"
        THEN LET x == code[2]
                 y == code[3]
             IN  ok(move_cursor_to(h, WindowsCoordinates(y - 1, x - 1)))
        ELSE IF control_type = "CARRIAGE_RETURN"
        THEN ok(write_text(h, <<CR>>))
        ELSE IF control_type = "HOME"
        THEN ok(move_cursor_to(h, WindowsCoordinates(0, 0)))
        ELSE IF control_type = "CURSOR_UP"
        THEN ok(move_cursor_up(h))
        ELSE IF control_type = "ERASE_IN_LINE"
        THEN LET mode == code[2]
             IN  IF mode = 0 THEN ok(erase_end_of_line(h))
                 ELSE IF mode = 1
                 \* term.erase_start_of_Line() is no attribute of
                 \* LegacyWindowsTerm: AttributeError
                 THEN [host |-> h, raised |-> TRUE]
                 ELSE IF mode = 2 THEN ok(erase_line(h))
                 ELSE ok(h)
        ELSE ok(h)

\* the loop over a segment's control codes, ended by the first that raises
RECURSIVE run_control_codes(_, _)
run_control_codes(r, codes) ==
    IF codes = <<>> \/ r.raised
    THEN r
    ELSE run_control_codes(control_code(r.host, Head(codes)), Tail(codes))

\* the body of `for segment in buffer` on console h
render_segment(h, t, s) ==
    IF s.control = <<>>
    THEN IF StyleTruthy(s.style)
         THEN [host |-> write_styled(h, t, s.text, s.style), raised |-> FALSE]
         ELSE [host |-> write_text(h, s.text), raised |-> FALSE]
    ELSE run_control_codes([host |-> h, raised |-> FALSE], s.control)

\* `for segment in buffer`, ended by the first segment that raises
RECURSIVE render(_, _, _)
render(r, t, segments) ==
    IF segments = <<>> \/ r.raised
    THEN r
    ELSE render(render_segment(r.host, t, Head(segments)), t, Tail(segments))

\* legacy_windows_render(buffer, LegacyWindowsTerm(file)) on console h
legacy_windows_render(h, segments) ==
    render([host |-> GetConsoleScreenBufferInfo(h), raised |-> FALSE],
           LegacyWindowsTerm(h), segments)

\* one control code is taken from the segment and dispatched
Dispatch(code) ==
    LET r == control_code(host, code)
    IN  /\ host' = r.host
        /\ pc' = IF r.raised THEN "raised" ELSE "control"
        /\ buffer' = AppendControl(code)
        /\ used' = used + 1
        /\ UNCHANGED <<term, host0, peer>>

CursorMoveTo ==
    /\ pc = "control"
    /\ used < MaxInput
    /\ \E code \in MoveToCodes : Dispatch(code)

CarriageReturn ==
    /\ pc = "control"
    /\ used < MaxInput
    /\ Dispatch(CarriageReturnCode)

Home ==
    /\ pc = "control"
    /\ used < MaxInput
    /\ Dispatch(HomeCode)

CursorUp ==
    /\ pc = "control"
    /\ used < MaxInput
    /\ Dispatch(CursorUpCode)

EraseEndOfLine ==
    /\ pc = "control"
    /\ used < MaxInput
    /\ Dispatch(EraseInLineCode(0))

EraseStartOfLine ==
    /\ pc = "control"
    /\ used < MaxInput
    /\ Dispatch(EraseInLineCode(1))

EraseLine ==
    /\ pc = "control"
    /\ used < MaxInput
    /\ Dispatch(EraseInLineCode(2))

\* ERASE_IN_LINE with a mode no branch matches
EraseOtherMode ==
    /\ pc = "control"
    /\ used < MaxInput
    /\ Dispatch(EraseInLineCode(3))

\* a control type no branch matches
UnknownControl ==
    /\ pc = "control"
    /\ used < MaxInput
    /\ Dispatch(BellCode)

\* the segment's control codes are exhausted
EndControl ==
    /\ pc = "control"
    /\ segment.control # <<>>
    /\ pc' = "loop"
    /\ UNCHANGED <<host, term, buffer, host0, used, peer>>

\* the buffer is exhausted: legacy_windows_render returns
Finish ==
    /\ pc = "loop"
    /\ pc' = "done"
    /\ UNCHANGED <<host, term, buffer, host0, used, peer>>

Next ==
    \/ Construct
    \/ RenderStyled
    \/ RenderPlain
    \/ BeginControl
    \/ CursorMoveTo
    \/ CarriageReturn
    \/ Home
    \/ CursorUp
    \/ EraseEndOfLine
    \/ EraseStartOfLine
    \/ EraseLine
    \/ EraseOtherMode
    \/ UnknownControl
    \/ EndControl
    \/ Finish

Spec == Init /\ [][Next]_vars


\* renders of a single styled segment, over every colour pair
NextColour ==
    \/ Construct
    \/ RenderAnyStyle
    \/ Finish

SpecColour == Init /\ [][NextColour]_vars

\* renders on a console that fails one attribute or cursor request: the
\* first, the second, ... the MaxFault-th it receives, or none
Faults == 0 .. MaxFault

InitFault ==
    /\ \E attr \in DefaultWords, fault \in Faults :
           host = [InitialHost(attr, 0) EXCEPT !.fault = fault]
    /\ term = NoTerm
    /\ pc = "new"
    /\ buffer = <<>>
    /\ host0 = host
    /\ used = 0
    /\ peer = Peer("off", NoTerm, host.attr)

SpecFault == InitFault /\ [][Next]_vars

\* two renders on one console.  The second renders PeerSegment, and its
\* statements are separate steps: the read of its constructor and the
\* three statements of write_styled; the statements of the first render
\* run between them.
PeerSegment == Segment(Hi, Style(Red, Green, FALSE), <<>>)

InitTwo ==
    /\ \E attr \in DefaultWords : host = InitialHost(attr, 0)
    /\ term = NoTerm
    /\ pc = "new"
    /\ buffer = <<>>
    /\ host0 = host
    /\ used = 0
    /\ \E position \in {"off", "new"} :
           peer = Peer(position, NoTerm, host.attr)

\* LegacyWindowsTerm(file) of the second render
PeerConstruct ==
    /\ peer.pc = "new"
    /\ host' = GetConsoleScreenBufferInfo(host)
    /\ peer' = [peer EXCEPT !.pc = "set", !.term = LegacyWindowsTerm(host)]
    /\ UNCHANGED <<term, pc, buffer, host0, used>>

\* write_styled: SetConsoleTextAttribute(fore + back * 16)
PeerSetAttribute ==
    /\ peer.pc = "set"
    /\ host' = SetConsoleTextAttribute(host,
                   PackedAttribute(ResolveFore(peer.term, PeerSegment.style),
                                   ResolveBack(peer.term, PeerSegment.style)))
    /\ peer' = [peer EXCEPT !.pc = "write"]
    /\ UNCHANGED <<term, pc, buffer, host0, used>>

\* write_styled: self.write_text(text)
PeerWrite ==
    /\ peer.pc = "write"
    /\ host' = write_text(host, PeerSegment.text)
    /\ peer' = [peer EXCEPT !.pc = "restore"]
    /\ UNCHANGED <<term, pc, buffer, host0, used>>

\* write_styled: SetConsoleTextAttribute(self._default_text)
PeerRestore ==
    /\ peer.pc = "restore"
    /\ host' = SetConsoleTextAttribute(host, peer.term.default_text)
    /\ peer' = [peer EXCEPT !.pc = "done"]
    /\ UNCHANGED <<term, pc, buffer, host0, used>>

NextTwo ==
    \/ Construct
    \/ RenderStyled
    \/ RenderPlain
    \/ Finish
    \/ PeerConstruct
    \/ PeerSetAttribute
    \/ PeerWrite
    \/ PeerRestore

SpecTwo == InitTwo /\ [][NextTwo]_vars

(***************************************************************************)
(* Properties.                                                             *)
(***************************************************************************)
Constructed == term.kind = "LegacyWindowsTerm"

\* the requests issued since the last segment was taken
SegmentCalls == SubSeq(host.calls, Len(host0.calls) + 1, Len(host.calls))

\* text writes, attribute, cursor and fill calls: everything but the reads
IsEffect(call) == call[1] # "getInfo"
Effects(calls) == SelectSeq(calls, IsEffect)

\* the last segment has been rendered completely
AfterSegment == pc \in {"loop", "done"} /\ buffer # <<>>

\* ... and it went through write_styled
AfterStyled ==
    AfterSegment /\ segment.control = <<>> /\ StyleTruthy(segment.style)

HasColor(style) ==
    /\ style.kind = "Style"
    /\ (style.color.kind # "None" \/ style.bgcolor.kind # "None")

\* the word of the first attribute call of the last segment
StyledWord == SegmentCalls[1][2]

\* C1: from construction on, the console's active attribute after every
\* step of the render, so after every styled write and at its end, is the
\* full attribute word read from the console when the renderer was
\* constructed, whatever the style.
C1_DefaultAttributeRestored ==
    [][/\ pc = "new" => term'.default_text = host.attr
       /\ pc # "new" => term' = term
       /\ host'.attr = term'.default_text]_vars

\* a style without colours was written on a console whose default word has
\* bits outside the colour nibbles: the attribute went to 22 and back to 158
C1_Witness ==
    /\ AfterStyled
    /\ ~HasColor(segment.style)
    /\ term.default_text = 158
    /\ SegmentCalls[1] = <<"setAttribute", 22>>
    /\ host.attr = 158

\* C2: a segment without control codes whose style carries a colour issues
\* exactly setAttribute(packed word), write(text), setAttribute(captured
\* default); a segment whose style is None issues only the write; and
\* [("Hi", red on green), ("!", None)] on a console with default 7 yields
\* setAttribute(36), write("Hi"), setAttribute(7), write("!").
C2_StyledCallSequence ==
    /\ (AfterSegment /\ segment.control = <<>> /\ HasColor(segment.style))
         => SegmentCalls =
              << <<"setAttribute",
                   ResolveFore(term, segment.style)
                     + ResolveBack(term, segment.style) * 16>>,
                 <<"write", segment.text>>,
                 <<"setAttribute", term.default_text>> >>
    /\ (AfterSegment /\ segment.control = <<>> /\ segment.style.kind = "None")
         => SegmentCalls = << <<"write", segment.text>> >>
    /\ (/\ pc \in {"loop", "done"}
        /\ term.default_text = 7
        /\ buffer = << Segment(Hi, Style(Red, Green, FALSE), <<>>),
                       Segment(Bang, NoStyle, <<>>) >>)
         => Effects(host.calls) =
              << <<"setAttribute", 36>>, <<"write", Hi>>,
                 <<"setAttribute", 7>>, <<"write", Bang>> >>

C2_Witness ==
    /\ pc = "done"
    /\ term.default_text = 7
    /\ buffer = << Segment(Hi, Style(Red, Green, FALSE), <<>>),
                   Segment(Bang, NoStyle, <<>>) >>
    /\ Len(Effects(host.calls)) = 4

\* C5: ANSI_TO_WINDOWS maps every ANSI index 0..7 into 0..7, red (1) to 4
\* and blue (4) to 1, and no two indices to the same native index; a styled
\* write of red or blue sets the swapped index in the nibble of its role.
C5_PaletteTable ==
    /\ \A n \in 0 .. 7 :
          n \in DOMAIN ANSI_TO_WINDOWS /\ ANSI_TO_WINDOWS[n] \in 0 .. 7
    /\ ANSI_TO_WINDOWS[1] = 4
    /\ ANSI_TO_WINDOWS[4] = 1
    /\ \A a, b \in 0 .. 7 : a # b => ANSI_TO_WINDOWS[a] # ANSI_TO_WINDOWS[b]
    /\ AfterStyled =>
          /\ segment.style.color = Color(1) => StyledWord % 8 = 4
          /\ segment.style.color = Color(4) => StyledWord % 8 = 1
          /\ segment.style.bgcolor = Color(1) => (StyledWord \div 16) % 8 = 4
          /\ segment.style.bgcolor = Color(4) => (StyledWord \div 16) % 8 = 1

C5_Witness ==
    /\ AfterStyled
    /\ segment.style.color = Color(1)
    /\ segment.style.bgcolor = Color(4)
    /\ StyledWord = 4 + 1 * 16

\* C6: the word a styled write sets is fore + back * 16 for the resolved
\* indices fore, back in 0..7, and (word & 7, (word >> 4) & 7) gives the
\* pair back; the same holds of the default word built at construction.
C6_PackedAttribute ==
    /\ AfterStyled =>
          LET fore == ResolveFore(term, segment.style)
              back == ResolveBack(term, segment.style)
          IN  /\ fore \in 0 .. 7
              /\ back \in 0 .. 7
              /\ StyledWord = fore + back * 16
              /\ StyledWord % 8 = fore
              /\ (StyledWord \div 16) % 8 = back
    /\ Constructed =>
          /\ term.default_attrs = term.default_fore + term.default_back * 16
          /\ term.default_attrs % 8 = term.default_fore
          /\ (term.default_attrs \div 16) % 8 = term.default_back

\* white on white: both indices at the top of their range
C6_Witness ==
    /\ AfterStyled
    /\ segment.style.color = Color(7)
    /\ segment.style.bgcolor = Color(7)
    /\ StyledWord = 119

\* the control code a step has just taken, and the requests the step issued
LastCode == segment.control[Len(segment.control)]
Processes(tag) ==
    pc = "control" /\ used' = used + 1 /\ LastCode'[1] = tag
NewCalls == SubSeq(host'.calls, Len(host.calls) + 1, Len(host'.calls))

\* C3 (as claimed): cursor-move-to(col, row) sets the cursor to native
\* (row - 1 + viewport row offset, col - 1 + viewport column offset),
\* here for every target inside the screen buffer.
C3_MoveToAddsViewportOffset ==
    [][Processes("CURSOR_MOVE_TO") =>
          LET row == LastCode'[3] - 1 + host.top
              col == LastCode'[2] - 1 + host.left
          IN  (row \in Rows /\ col \in Cols)
                => (host'.row = row /\ host'.col = col)]_vars

\* C4 (as claimed): erase-in-line(mode=2) with the cursor at (r, c) fills
\* exactly Width spaces starting at native (row r, col 0): the cursor's row
\* is blanked and no other cell changes.
C4_EraseLineFillsCursorRow ==
    [][(Processes("ERASE_IN_LINE") /\ LastCode'[2] = 2) =>
          /\ Effects(NewCalls) = << <<"fill", " ", Width, host.row, 0>> >>
          /\ \A r \in Rows, c \in Cols :
                host'.cells[r][c].ch =
                    IF r = host.row THEN " " ELSE host.cells[r][c].ch]_vars

\* C7 (as claimed): a render pass over segments whose control codes include
\* erase-in-line with mode 0, 1 or 2 never raises.
C7_RenderNeverRaises == pc # "raised"

\* C8: cursor-up with the cursor at (r, c): for r >= 1 the cursor is set to
\* (r - 1, c); for r = 0 nothing is raised, no set-cursor-position request
\* reaches the host, the cursor stays at (0, c), and the loop over the
\* control codes goes on.
C8_CursorUp ==
    [][Processes("CURSOR_UP") =>
          /\ pc' = "control"
          /\ host'.col = host.col
          /\ IF host.row >= 1
             THEN /\ host'.row = host.row - 1
                  /\ Effects(NewCalls) =
                       << <<"setCursorPosition", host.row - 1, host.col>> >>
             ELSE /\ host'.row = 0
                  /\ Effects(NewCalls) = <<>>]_vars

\* cursor-up at row 0 issued no request, and the cursor-move-to after it in
\* the same segment was carried out
C8_Witness ==
    /\ pc = "control"
    /\ segment.control = <<CursorUpCode, CursorMoveToCode(2, 2)>>
    /\ Effects(SegmentCalls) = << <<"setCursorPosition", 1, 1>> >>
    /\ host.row = 1
    /\ host.col = 1

InsertAt(seq, p, e) == SubSeq(seq, 1, p) \o <<e>> \o SubSeq(seq, p + 1, Len(seq))

\* the last segment with an unrecognized control code put at position p
WithUnknown(p) == [segment EXCEPT !.control = InsertAt(@, p, BellCode)]

\* the last segment has been taken and, if it carries control codes, its
\* first code has been dispatched
SegmentTaken ==
    /\ buffer # <<>>
    /\ ~(pc = "control" /\ segment.control = <<>>)

\* a request other than a read and other than a write of the empty text
IsVisible(call) == IsEffect(call) /\ ~(call[1] = "write" /\ call[2] = <<>>)

C10_EraseStartOfLineFills ==
    [][(Processes("ERASE_IN_LINE") /\ LastCode'[2] = 1) =>
          /\ pc' = "control"
          /\ \A r \in Rows, c \in Cols :
                host'.cells[r][c].ch =
                    IF r = host.row /\ c <= host.col
                    THEN " "
                    ELSE host.cells[r][c].ch]_vars

\* C11 (as claimed): erase-in-line(mode=0) with the cursor at (r, c) on a
\* console of width Width fills exactly Width - c spaces starting at native
\* (row r, col c): row r is blanked from column c on, and no other row and
\* no cell to the left of c changes.
C11_EraseEndOfLineFills ==
    [][(Processes("ERASE_IN_LINE") /\ LastCode'[2] = 0) =>
          /\ Effects(NewCalls) =
               << <<"fill", " ", Width - host.col, host.row, host.col>> >>
          /\ \A r \in Rows, c \in Cols :
                host'.cells[r][c].ch =
                    IF r = host.row /\ c >= host.col
                    THEN " "
                    ELSE host.cells[r][c].ch]_vars

\* the index the claim gives a role: the role's default nibble when the
\* style has no colour for the role, the colour has no number, or the number
\* is outside 0..7, and the palette entry of the number otherwise
ExpectedIndex(color, nibble) ==
    IF color.kind = "Color" /\ color.number \in 0 .. 7
    THEN ANSI_TO_WINDOWS[color.number]
    ELSE nibble

\* C12: in a styled write the index of each role is the role's default
\* nibble (low nibble of the captured default word for the foreground, its
\* bits 4..6 for the background) when the style has no colour for the role
\* or the downgraded number is absent or outside 0..7, and
\* ANSI_TO_WINDOWS[number] otherwise; it lies in 0..7 and nothing is raised.
C12_ColourResolution ==
    /\ pc # "raised"
    /\ AfterStyled =>
          LET fore == ExpectedIndex(segment.style.color,
                                    term.default_text % 8)
              back == ExpectedIndex(segment.style.bgcolor,
                                    (term.default_text \div 16) % 8)
          IN  /\ fore \in 0 .. 7
              /\ back \in 0 .. 7
              /\ ResolveFore(term, segment.style) = fore
              /\ ResolveBack(term, segment.style) = back
              /\ SegmentCalls[1] = <<"setAttribute", fore + back * 16>>

\* a number outside the palette and the default colour, on a console whose
\* default word is 158: the indices are the default nibbles 6 and 1
C12_Witness ==
    /\ AfterStyled
    /\ segment.style.color = Color(MaxNumber)
    /\ segment.style.bgcolor = DefaultColor
    /\ term.default_text = 158
    /\ SegmentCalls[1] = <<"setAttribute", 22>>

\* C13 (as claimed): a segment without control codes whose style is absent,
\* or present without a foreground and without a background colour, issues
\* the write of its text and no setAttribute call.
C13_NoColourNoAttributeCall ==
    (AfterSegment /\ segment.control = <<>> /\ ~HasColor(segment.style))
        => SegmentCalls = << <<"write", segment.text>> >>

\* C13 (amended): a segment without control codes whose style is absent or
\* false (a Style that sets nothing) issues the write of its text and no
\* setAttribute call, and the active attribute stays what it was; a style
\* that sets some attribute but neither colour goes through the styled
\* write with both default indices: setAttribute(default_fore +
\* default_back * 16), write(text), setAttribute(captured default word).
C13_ColourlessStyle ==
    (AfterSegment /\ segment.control = <<>> /\ ~HasColor(segment.style)) =>
        IF segment.style.kind = "Style" /\ segment.style.bold
        THEN SegmentCalls =
               << <<"setAttribute",
                    (term.default_text % 8)
                      + ((term.default_text \div 16) % 8) * 16>>,
                  <<"write", segment.text>>,
                  <<"setAttribute", term.default_text>> >>
        ELSE /\ SegmentCalls = << <<"write", segment.text>> >>
             /\ host.attr = host0.attr

\* a bold style without colours, then a style that sets nothing, on a
\* console whose default word is 158
C13_Witness ==
    /\ pc = "loop"
    /\ term.default_text = 158
    /\ buffer = << Segment(Hi, BoldStyle, <<>>),
                   Segment(Bang, NullStyle, <<>>) >>
    /\ Effects(host.calls) =
         << <<"setAttribute", 22>>, <<"write", Hi>>,
            <<"setAttribute", 158>>, <<"write", Bang>> >>

IsWrite(call) == call[1] = "write"

C16_NegativeMoveToIsNoOp ==
    [][(/\ Processes("CURSOR_MOVE_TO")
        /\ \/ LastCode'[3] - 1 + host.top < 0
           \/ LastCode'[2] - 1 + host.left < 0) =>
          /\ NewCalls = <<>>
          /\ host' = host
          /\ pc' = "control"]_vars

\* move-to(0, 0) after move-to(2, 2): the cursor stayed at (1, 1), and the
\* cursor-up that followed was carried out from there
C16_Witness ==
    /\ pc = "control"
    /\ host.top = 0
    /\ segment.control = <<CursorMoveToCode(0, 0)>>
    /\ SegmentCalls = <<>>
    /\ Len(buffer) = 2
    /\ buffer[1].control = <<CursorMoveToCode(2, 2)>>
    /\ host.row = 1
    /\ host.col = 1

\* C17: an erase-in-line whose mode is not 0, 1 or 2 issues no request (no
\* read of the cursor, no fill, no write), leaves the console as it was,
\* raises nothing, and the loop over the control codes goes on.
C17_OtherEraseModeIsNoOp ==
    [][(Processes("ERASE_IN_LINE") /\ LastCode'[2] \notin {0, 1, 2}) =>
          /\ NewCalls = <<>>
          /\ host' = host
          /\ pc' = "control"]_vars

\* erase-in-line(3) issued nothing, and the cursor-move-to after it in the
\* same segment was carried out
C17_Witness ==
    /\ pc = "control"
    /\ segment.control = <<EraseInLineCode(3), CursorMoveToCode(2, 2)>>
    /\ SegmentCalls = << <<"setCursorPosition", 1, 1>> >>

\* C18: home sets the cursor to native (0, 0) from every position and for
\* every window offset, with one set-cursor-position request for (0, 0) and
\* without a read of the cursor position.
C18_HomeIsNativeOrigin ==
    [][Processes("HOME") =>
          /\ host'.row = 0
          /\ host'.col = 0
          /\ NewCalls = << <<"setCursorPosition", 0, 0>> >>
          /\ pc' = "control"]_vars

\* home from (1, 1) on a console whose window starts at row ViewTop
C18_Witness ==
    /\ pc = "control"
    /\ host.top = ViewTop
    /\ segment.control = <<CursorMoveToCode(2, 2), HomeCode>>
    /\ host.row = 0
    /\ host.col = 0

IsFill(call) == call[1] = "fill"

\* C20: the step of a control code never requests an attribute and leaves
\* the active attribute as it is; it writes no text but the single "\r" of
\* a carriage-return; and cursor-move-to, home, cursor-up and erase-in-line
\* change no cell but through a fill request, which changes characters to
\* the fill character and no cell's attribute.
C20_ControlCodesKeepAttributeAndText ==
    [][(pc = "control" /\ used' = used + 1) =>
          /\ host'.attr = host.attr
          /\ \A i \in 1 .. Len(NewCalls) : NewCalls[i][1] # "setAttribute"
          /\ SelectSeq(NewCalls, IsWrite) =
               IF LastCode'[1] = "CARRIAGE_RETURN"
               THEN << <<"write", <<CR>>>> >>
               ELSE <<>>
          /\ LastCode'[1] # "CARRIAGE_RETURN" =>
                \A r \in Rows, c \in Cols :
                    \/ host'.cells[r][c] = host.cells[r][c]
                    \/ /\ SelectSeq(NewCalls, IsFill) # <<>>
                       /\ host'.cells[r][c] =
                            [ch |-> " ", attr |-> host.cells[r][c].attr]]_vars

\* on a console with default word 158, carriage-return and erase-in-line(2)
\* in a segment with text: one "\r", one fill, no write of the text, and
\* the attribute still 158
C20_Witness ==
    /\ pc = "control"
    /\ host.attr = 158
    /\ buffer = << Segment(Hi, NoStyle,
                           <<CarriageReturnCode, EraseInLineCode(2)>>) >>
    /\ Effects(SegmentCalls) =
         << <<"write", <<CR>>>>, <<"fill", " ", Width, 0, 0>> >>
    /\ \A c \in Cols : host.cells[0][c] = [ch |-> " ", attr |-> 158]

\* the render has been constructed and its last segment, if any, taken
Settled == Constructed /\ (buffer = <<>> \/ SegmentTaken)

\* the same render on the same console, had the console failed no request
Unfailed ==
    legacy_windows_render(
        [InitialHost(term.default_text, host.top) EXCEPT !.fault = 0], buffer)

\* the position in the trace of the request the console failed, 0 if none
FailedAt ==
    LET at == {i \in 1 .. Len(host.calls) :
                  /\ IsSetRequest(host.calls[i])
                  /\ Len(SelectSeq(SubSeq(host.calls, 1, i), IsSetRequest))
                       = host.fault}
    IN  IF at = {} THEN 0 ELSE CHOOSE i \in at : TRUE

\* a read of the cursor position follows the failed request
ReadAfterFailure ==
    \E i \in (FailedAt + 1) .. Len(host.calls) : host.calls[i] = <<"getInfo">>

IsTextOrAttribute(call) == call[1] \in {"write", "setAttribute"}

\* C15 (as claimed): when a setAttribute or setCursorPosition request
\* reports failure the render raises nothing, does not repeat the request,
\* and issues the very sequence of requests it issues when the request
\* succeeds.
C15_FailureChangesNoCall ==
    Settled =>
        /\ Unfailed.raised = (pc = "raised")
        /\ Unfailed.host.calls = host.calls

\* C15 (amended): when a setAttribute or setCursorPosition request reports
\* failure the render raises nothing and does not repeat the request; its
\* text writes and attribute requests are those it issues when the request
\* succeeds, and so is its whole sequence of requests when the failed
\* request was a setAttribute or no cursor-up or erase-in-line follows the
\* failed setCursorPosition (these read the cursor the failure left).
C15_FailureIsSwallowed ==
    (Settled /\ FailedAt # 0) =>
        /\ Unfailed.raised = (pc = "raised")
        /\ SubSeq(Unfailed.host.calls, 1, FailedAt)
             = SubSeq(host.calls, 1, FailedAt)
        /\ SelectSeq(Unfailed.host.calls, IsTextOrAttribute)
             = SelectSeq(host.calls, IsTextOrAttribute)
        /\ (host.calls[FailedAt][1] = "setAttribute" \/ ~ReadAfterFailure)
             => Unfailed.host.calls = host.calls

\* the console failed the restore of a styled write: the attribute stayed
\* 36, and the plain write after it was issued all the same
C15_Witness ==
    /\ pc = "loop"
    /\ host.fault = 2
    /\ term.default_text = 158
    /\ buffer = << Segment(Hi, Style(Red, Green, FALSE), <<>>),
                   Segment(Bang, NoStyle, <<>>) >>
    /\ Effects(host.calls) =
         << <<"setAttribute", 36>>, <<"write", Hi>>,
            <<"setAttribute", 158>>, <<"write", Bang>> >>
    /\ host.attr = 36

\* the word the second render sets for its styled write
PeerWord == PackedAttribute(ANSI_TO_WINDOWS[Red.number], ANSI_TO_WINDOWS[Green.number])

\* the first render has written the text of a segment without style while
\* the second was between the first and the last statement of its styled
\* write, and the active attribute was that of the second render's style
PlainWriteUnderPeerStyle ==
    /\ AfterSegment
    /\ segment.control = <<>>
    /\ ~StyleTruthy(segment.style)
    /\ segment.text # <<>>
    /\ peer.pc \in {"write", "restore"}
    /\ host0.attr = PeerWord
    /\ host0.attr # peer.original

\* both renders have returned and the active attribute is not the one the
\* console had before them
AttributeLeaked ==
    /\ pc = "done"
    /\ peer.pc \in {"off", "done"}
    /\ host.attr # peer.original

\* C19: with two renders on one console whose primitive calls interleave,
\* a state is reached where one writes the text of a segment without style
\* while the active attribute is the other's styled attribute, and a state
\* where both have returned and the active attribute is not the original
\* default (C19_Witness reaches both in one run); with one render alone
\* neither is reached: every text without style is written under the
\* original attribute, and the attribute at the end is the original one.
C19_OneRenderKeepsAttribute ==
    peer.pc = "off" =>
        /\ ~PlainWriteUnderPeerStyle
        /\ ~AttributeLeaked
        /\ (/\ AfterSegment
            /\ segment.control = <<>>
            /\ ~StyleTruthy(segment.style)) => host0.attr = peer.original
        /\ pc = "done" => host.attr = peer.original

\* the first render is constructed after the second has set 36, so it
\* captures 36 as its default, and writes "!" without style under 36; the
\* second restores 158; the first then restores 36 after its own styled
\* write, and both return with the attribute at 36
C19_Witness ==
    /\ AttributeLeaked
    /\ peer.pc = "done"
    /\ peer.original = 158
    /\ term.default_text = PeerWord
    /\ buffer = << Segment(Bang, NoStyle, <<>>),
                   Segment(Hi, Style(Red, Green, FALSE), <<>>) >>
    /\ host.calls =
         << <<"getInfo">>, <<"setAttribute", PeerWord>>,
            <<"getInfo">>, <<"write", Bang>>,
            <<"write", Hi>>, <<"setAttribute", 158>>,
            <<"setAttribute", PeerWord>>, <<"write", Hi>>,
            <<"setAttribute", PeerWord>> >>
    /\ host.cells[0][0] = [ch |-> "!", attr |-> PeerWord]
    /\ host.attr = PeerWord

=============================================================================
